---------------------------- MODULE Spec2Model ----------------------------
(***************************************************************************)
(* A model of the dependency-graph parser, normalizer and differ of the   *)
(* pull-request risk report action (src/unnamed/part_001, with the older  *)
(* revision src/src/index.ts where the two differ, and the identifier     *)
(* class of src/unnamed/part_003).                                        *)
(*                                                                         *)
(* The specifications of the module share its variables; the parts one    *)
(* of them leaves out stay idle:                                           *)
(*   SpecDiff        the differ part of run(): two classified forests are  *)
(*                   the input, detectUpgrades / computeDiff / the         *)
(*                   cross-filter act                                      *)
(*   SpecDiffDeep    the same steps on forests whose roots have children   *)
(*   SpecCoord       one endpoint string: split, create, toJson            *)
(*   Spec            parseDependencyTreeOutput on a bounded input text:    *)
(*                   the line scanner, the edge loop, the normalizer       *)
(*   SpecTerminates  Spec with the normalizer's step taken when it can be  *)
(*   SpecId          a method call on a ComponentIdentifier                *)
(*   SpecReport      the report sections of run() and the lookups          *)
(*   SpecComment     postComment calls on a pull request                   *)
(***************************************************************************)
EXTENDS Integers, Sequences, FiniteSets, TLC

VARIABLES
    \* ---- run(), differ part ----
    pc,                  \* position in run(): "parsed", "upgrades", "raw", "filtered"
    masterDependencies,  \* baseline forest (list of root Dependency objects)
    sourceDependencies,  \* candidate forest
    upgrades,            \* list of {name, from, to}
    introducedRaw,
    removedRaw,
    introduced,
    removed,
    \* ---- createDependencyFromMavenCoordinates on one coordinate string ----
    cpc,                 \* "idle", "split", "created"
    coordinateString,    \* the raw endpoint string, a list of characters
    mavenCoordinates,    \* coordinateString.split(':')
    dependency,          \* the Dependency returned
    json,                \* what toJson made of its identifier
    \* ---- parseDependencyTreeOutput ----
    ppc,                 \* "idle", "scan", "normalize", "returned", "threw"
    lineIndex,           \* lines of the input text the scanner has consumed
    inDiagraphSection,
    allModules,          \* the closed subgraph buffers
    thisModule,          \* the open buffer
    heap,                \* the Dependency objects allocated; a reference is an index
    dependencies,        \* the root list (references)
    \* ---- a method call on a ComponentIdentifier ----
    ipc,                 \* "idle", "made", "called"
    thisId,              \* the receiver
    otherId,             \* the argument of equals
    called,              \* the method called
    returnValue,         \* what it returned
    \* ---- run(): the report, lines 307-469 ----
    rpc,                 \* "idle", "report", "posted", "skipped", "failed"
    introducedList,      \* the nodes of the New Components section
    upgradeList,         \* the from/to pairs of the Version Changes section
    removedList,         \* the nodes of the Removed Components section
    reportIndex,         \* entries reported so far, per section
    lastReport,          \* the lookups and counts of the entry reported last
    \* ---- postComment on a pull request ----
    comments,            \* the comments of the pull request, oldest first
    postCalls,           \* postComment calls made so far
    lastPost,            \* the body and the outcome of the call made last
    lastPosted           \* the body of the last call that wrote a comment

diffVars == <<pc, masterDependencies, sourceDependencies, upgrades,
              introducedRaw, removedRaw, introduced, removed>>

coordVars == <<cpc, coordinateString, mavenCoordinates, dependency, json>>

parseVars == <<ppc, lineIndex, inDiagraphSection,
               allModules, thisModule, heap, dependencies>>

idVars == <<ipc, thisId, otherId, called, returnValue>>

reportVars == <<rpc, introducedList, upgradeList, removedList, reportIndex,
                lastReport>>

commentVars == <<comments, postCalls, lastPost, lastPosted>>

vars == <<diffVars, coordVars, parseVars, idVars, reportVars, commentVars>>

\* what a step of one part leaves alone
notDiffVars == <<coordVars, parseVars, idVars, reportVars, commentVars>>

notCoordVars == <<diffVars, parseVars, idVars, reportVars, commentVars>>

notParseVars == <<diffVars, coordVars, idVars, reportVars, commentVars>>

notIdVars == <<diffVars, coordVars, parseVars, reportVars, commentVars>>

notReportVars == <<diffVars, coordVars, parseVars, idVars, commentVars>>

notCommentVars == <<diffVars, coordVars, parseVars, idVars, reportVars>>

(***************************************************************************)
(* Bounds                                                                  *)
(***************************************************************************)
\* longest root list of a forest handed to the differ
MaxRoots == 2

\* longest coordinate string handed to split(':') on its own
MaxCoordLen == 7

\* most lines of an input text
MaxLines == 5

(***************************************************************************)
(* JavaScript values                                                       *)
(***************************************************************************)
\* the value `undefined` (an array read past the end, a Map miss, an unset field)
UNDEFINED == "<undefined>"

\* new Map()
EmptyMap == [n \in {} |-> UNDEFINED]

\* Map.get: undefined on a miss
MapGet(map, key) == IF key \in DOMAIN map THEN map[key] ELSE UNDEFINED

\* JS truthiness of a string-or-undefined value
Truthy(v) == v # UNDEFINED /\ v # ""

(***************************************************************************)
(* ComponentIdentifier                                                     *)
(***************************************************************************)
MAVEN == "maven"

createMavenIdentifier(groupId, artifactId, extension, classifier, version) ==
    [format |-> MAVEN,
     coordinates |-> [groupId    |-> groupId,
                      artifactId |-> artifactId,
                      version    |-> version,
                      classifier |-> classifier,
                      extension  |-> extension]]

getName(identifier) == MapGet(identifier.coordinates, "artifactId")

\* a getVersion without the sentinel
getVersion_raw(identifier) == MapGet(identifier.coordinates, "version")

getVersion(identifier) ==
    LET version == MapGet(identifier.coordinates, "version")
    IN  IF Truthy(version) THEN version ELSE "n/a"

(***************************************************************************)
(* Strings.  A string the parser takes apart (a line, a coordinate string) *)
(* is a list of one-character strings; a string it only compares or       *)
(* stores (a coordinate part, a field) is a TLA+ string.                   *)
(***************************************************************************)
\* the part of `chars` before its first ':' (all of it when there is none),
\* as one string
RECURSIVE FirstPart(_)
FirstPart(chars) ==
    IF chars = <<>> \/ Head(chars) = ":" THEN ""
    ELSE Head(chars) \o FirstPart(Tail(chars))

\* what follows the first ':' of `chars`
RECURSIVE AfterFirstColon(_)
AfterFirstColon(chars) ==
    IF Head(chars) = ":" THEN Tail(chars) ELSE AfterFirstColon(Tail(chars))

\* String.prototype.split(':')
RECURSIVE Split(_)
Split(chars) ==
    IF \E i \in DOMAIN chars : chars[i] = ":"
    THEN <<FirstPart(chars)>> \o Split(AfterFirstColon(chars))
    ELSE <<FirstPart(chars)>>

\* arr[i] of a JS array, 0-based: undefined past the end
At(arr, i) == IF i + 1 \in DOMAIN arr THEN arr[i + 1] ELSE UNDEFINED

(***************************************************************************)
(* createDependencyFromMavenCoordinates                                    *)
(***************************************************************************)
NewDependency(identifier, scope) ==
    [identifier |-> identifier,
     scope      |-> scope,
     children   |-> <<>>,
     isModule   |-> FALSE,
     isDirect   |-> "false"]

\* the 6-part branch with classifier and version read from each other's place
createDependencyFromMavenCoordinates_swapped(coords) ==
    IF Len(coords) = 4
    THEN NewDependency(
            createMavenIdentifier(At(coords, 0), At(coords, 1), At(coords, 2),
                                  "", At(coords, 3)),
            UNDEFINED)
    ELSE IF Len(coords) = 5
    THEN NewDependency(
            createMavenIdentifier(At(coords, 0), At(coords, 1), At(coords, 2),
                                  "", At(coords, 3)),
            At(coords, 4))
    ELSE NewDependency(
            createMavenIdentifier(At(coords, 0), At(coords, 1), At(coords, 2),
                                  At(coords, 4), At(coords, 3)),
            At(coords, 5))

createDependencyFromMavenCoordinates(coords) ==
    IF Len(coords) = 4
    THEN NewDependency(
            createMavenIdentifier(At(coords, 0), At(coords, 1), At(coords, 2),
                                  "", At(coords, 3)),
            UNDEFINED)
    ELSE IF Len(coords) = 5
    THEN NewDependency(
            createMavenIdentifier(At(coords, 0), At(coords, 1), At(coords, 2),
                                  "", At(coords, 3)),
            At(coords, 4))
    ELSE NewDependency(
            createMavenIdentifier(At(coords, 0), At(coords, 1), At(coords, 2),
                                  At(coords, 3), At(coords, 4)),
            At(coords, 5))

(***************************************************************************)
(* parseDependencyTreeOutput: the line scanner                             *)
(***************************************************************************)
Q == "\""

\* '[INFO] digraph'
DigraphStart ==
    <<"[", "I", "N", "F", "O", "]", " ", "d", "i", "g", "r", "a", "p", "h">>

\* '[INFO]  } '
DigraphEnd == <<"[", "I", "N", "F", "O", "]", " ", " ", "}", " ">>

\* String.prototype.startsWith
startsWith(line, prefix) ==
    /\ Len(line) >= Len(prefix)
    /\ SubSeq(line, 1, Len(prefix)) = prefix

\* a scanner that takes a start marker for the end of the open block too
scanLine_closeOnStart(scanner, line) ==
    IF startsWith(line, DigraphStart)
    THEN [scanner EXCEPT !.thisModule = <<>>, !.inDiagraphSection = TRUE,
                         !.allModules = IF scanner.inDiagraphSection
                                        THEN Append(@, scanner.thisModule)
                                        ELSE @]
    ELSE IF line = DigraphEnd
    THEN [scanner EXCEPT !.inDiagraphSection = FALSE,
                         !.allModules = Append(@, scanner.thisModule),
                         !.thisModule = <<>>]
    ELSE IF scanner.inDiagraphSection
    THEN [scanner EXCEPT !.thisModule = Append(@, line)]
    ELSE scanner

\* a scanner that buffers a line whether or not a subgraph is open
scanLine_unflagged(scanner, line) ==
    IF startsWith(line, DigraphStart)
    THEN [scanner EXCEPT !.thisModule = <<>>, !.inDiagraphSection = TRUE]
    ELSE IF line = DigraphEnd
    THEN [scanner EXCEPT !.inDiagraphSection = FALSE,
                         !.allModules = Append(@, scanner.thisModule),
                         !.thisModule = <<>>]
    ELSE [scanner EXCEPT !.thisModule = Append(@, line)]

\* one pass of the scanner's loop body over `line`
scanLine(scanner, line) ==
    IF startsWith(line, DigraphStart)
    THEN [scanner EXCEPT !.thisModule = <<>>, !.inDiagraphSection = TRUE]
    ELSE IF line = DigraphEnd
    THEN [scanner EXCEPT !.inDiagraphSection = FALSE,
                         !.allModules = Append(@, scanner.thisModule),
                         !.thisModule = <<>>]
    ELSE IF scanner.inDiagraphSection
    THEN [scanner EXCEPT !.thisModule = Append(@, line)]
    ELSE scanner

(***************************************************************************)
(* parseDependencyTreeOutput: the edge loop                                *)
(***************************************************************************)
\* the position of the first '"' after position i, 0 when there is none
NextQuote(line, i) ==
    IF \E j \in (i + 1)..Len(line) : line[j] = Q
    THEN CHOOSE j \in (i + 1)..Len(line) :
             /\ line[j] = Q
             /\ \A k \in (i + 1)..(j - 1) : line[k] # Q
    ELSE 0

\* the text between the two groups of the pattern: '" -> "'
Arrow == <<Q, " ", "-", ">", " ", Q>>

\* /"([^"]+)" -> "([^"]+)"/ matches `line` starting at position i
MatchesAt(line, i) ==
    LET j == NextQuote(line, i)
        k == NextQuote(line, j + 5)
    IN  /\ line[i] = Q
        /\ j > i + 1
        /\ j + 5 <= Len(line)
        /\ SubSeq(line, j, j + 5) = Arrow
        /\ k > j + 6

\* RegExp.prototype.exec: <<>> for null, else <<match, group 1, group 2>>
exec(line) ==
    IF \E i \in DOMAIN line : MatchesAt(line, i)
    THEN LET i == CHOOSE a \in DOMAIN line :
                      /\ MatchesAt(line, a)
                      /\ \A b \in 1..(a - 1) : ~ MatchesAt(line, b)
             j == NextQuote(line, i)
             k == NextQuote(line, j + 5)
         IN  <<SubSeq(line, i, k), SubSeq(line, i + 1, j - 1),
               SubSeq(line, j + 6, k - 1)>>
    ELSE <<>>

\* Map.set
MapSet(map, key, value) ==
    [x \in DOMAIN map \cup {key} |-> IF x = key THEN value ELSE map[x]]

\* a lookup that misses every time: one new node per mention
resolve_noTable(st, raw, isLeft) ==
    LET ref == Len(st.heap) + 1
    IN  [st |-> [st EXCEPT
                   !.heap = Append(@,
                       createDependencyFromMavenCoordinates(Split(raw))),
                   !.parsedDependencies = MapSet(@, raw, ref),
                   !.dependencies =
                       IF isLeft /\ raw \notin DOMAIN st.parsedDependencies
                       THEN Append(@, ref) ELSE @],
         ref |-> ref]

\* a lookup that pushes a left-hand node on the root list on every mention
resolve_everyLeft(st, raw, isLeft) ==
    IF raw \in DOMAIN st.parsedDependencies
    THEN LET ref == st.parsedDependencies[raw]
         IN  [st |-> [st EXCEPT
                        !.dependencies = IF isLeft THEN Append(@, ref) ELSE @],
              ref |-> ref]
    ELSE LET ref == Len(st.heap) + 1
         IN  [st |-> [st EXCEPT
                        !.heap = Append(@,
                            createDependencyFromMavenCoordinates(Split(raw))),
                        !.parsedDependencies = MapSet(@, raw, ref),
                        !.dependencies = IF isLeft THEN Append(@, ref) ELSE @],
              ref |-> ref]

\* parsedDependencies.get(raw), and on a miss the node's creation; a
\* left-hand node seen for the first time is pushed on the root list
resolve(st, raw, isLeft) ==
    IF raw \in DOMAIN st.parsedDependencies
    THEN [st |-> st, ref |-> st.parsedDependencies[raw]]
    ELSE LET ref == Len(st.heap) + 1
         IN  [st |-> [st EXCEPT
                        !.heap = Append(@,
                            createDependencyFromMavenCoordinates(Split(raw))),
                        !.parsedDependencies = MapSet(@, raw, ref),
                        !.dependencies = IF isLeft THEN Append(@, ref) ELSE @],
              ref |-> ref]

\* the body of the loop over a subgraph's lines.  `guarded` is the check
\* `if (!matches) continue`; without it matches![1] throws a TypeError
processEdgeLine(st, line, guarded) ==
    LET matches == exec(line)
    IN  IF st.threw THEN st
        ELSE IF matches = <<>>
        THEN (IF guarded THEN st ELSE [st EXCEPT !.threw = TRUE])
        ELSE LET l == resolve(st, matches[2], TRUE)
                 r == resolve(l.st, matches[3], FALSE)
             IN  [r.st EXCEPT !.heap[l.ref].children = Append(@, r.ref)]

RECURSIVE processModule(_, _, _)
processModule(st, lines, guarded) ==
    IF lines = <<>> THEN st
    ELSE processModule(processEdgeLine(st, Head(lines), guarded),
                       Tail(lines), guarded)

\* the loop over allModules; each subgraph starts with an empty lookup table
RECURSIVE processModules(_, _, _)
processModules(st, modules, guarded) ==
    IF modules = <<>> THEN st
    ELSE processModules(
            processModule([st EXCEPT !.parsedDependencies = EmptyMap],
                          Head(modules), guarded),
            Tail(modules), guarded)

edgeLoop(modules, guarded) ==
    processModules([heap |-> <<>>, dependencies |-> <<>>,
                    parsedDependencies |-> EmptyMap, threw |-> FALSE],
                   modules, guarded)

(***************************************************************************)
(* ComponentIdentifier.equals                                              *)
(***************************************************************************)
\* Map.get
equals(a, b) ==
    /\ a.format = b.format
    /\ \A key \in DOMAIN a.coordinates :
           a.coordinates[key] = MapGet(b.coordinates, key)
    /\ \A key \in DOMAIN b.coordinates : key \in DOMAIN a.coordinates

(***************************************************************************)
(* parseDependencyTreeOutput: the normalizer                               *)
(***************************************************************************)
\* a filter that lets every root through
removePoms_none(h, roots) == roots

\* the pom filter over the root list
removePoms(h, roots) ==
    SelectSeq(roots, LAMBDA r : h[r].identifier.coordinates.extension # "pom")

\* a marking pass that leaves every child as it was parsed
markDirect_none(h, children) == h

\* child.isDirect = true for every child of the list
RECURSIVE markDirect(_, _)
markDirect(h, children) ==
    IF children = <<>> THEN h
    ELSE markDirect([h EXCEPT ![Head(children)].isDirect = "true"],
                    Tail(children))

\* a forEach over the module roots that leaves every child list as parsed
RECURSIVE markModules_unfiltered(_, _, _)
markModules_unfiltered(h, roots, todo) ==
    IF todo = <<>> THEN h
    ELSE LET d == Head(todo)
             h1 == [h EXCEPT ![d].isDirect = UNDEFINED, ![d].isModule = TRUE]
         IN  markModules_unfiltered(markDirect(h1, h[d].children), roots,
                                    Tail(todo))

\* the forEach over the module roots; `todo` is what is left of `roots`
RECURSIVE markModules(_, _, _)
markModules(h, roots, todo) ==
    IF todo = <<>> THEN h
    ELSE LET d == Head(todo)
             kept == SelectSeq(h[d].children,
                        LAMBDA child :
                            ~ \E k \in DOMAIN roots :
                                equals(h[child].identifier,
                                       h[roots[k]].identifier))
             h1 == [h EXCEPT ![d].children = kept,
                             ![d].isDirect = UNDEFINED,
                             ![d].isModule = TRUE]
         IN  markModules(markDirect(h1, kept), roots, Tail(todo))

\* children.map(dep => ({...dep})): copies that keep the parsed isDirect
RECURSIVE copyAsDirect_plain(_, _)
copyAsDirect_plain(st, children) ==
    IF children = <<>> THEN st
    ELSE copyAsDirect_plain(
            [heap |-> Append(st.heap, st.heap[Head(children)]),
             dependencies |-> Append(st.dependencies, Len(st.heap) + 1)],
            Tail(children))

\* children.map(dep => ({...dep, isDirect: true})): one new object per entry
RECURSIVE copyAsDirect(_, _)
copyAsDirect(st, children) ==
    IF children = <<>> THEN st
    ELSE copyAsDirect(
            [heap |-> Append(st.heap,
                         [st.heap[Head(children)] EXCEPT !.isDirect = "true"]),
             dependencies |-> Append(st.dependencies, Len(st.heap) + 1)],
            Tail(children))

\* the single-root step that keeps the root and only marks its children
normalize_keepRoot(h, roots) ==
    LET kept == removePoms(h, roots)
    IN  IF Len(kept) > 1
        THEN [heap |-> markModules(h, kept, kept), dependencies |-> kept]
        ELSE IF Len(kept) = 1
        THEN [heap |-> markDirect(h, h[kept[1]].children), dependencies |-> kept]
        ELSE [heap |-> h, dependencies |-> kept]

\* a normalizer that hands back the parsed roots when the filter leaves none
normalize_keepWhenEmpty(h, roots) ==
    LET kept == removePoms(h, roots)
    IN  IF Len(kept) > 1
        THEN [heap |-> markModules(h, kept, kept), dependencies |-> kept]
        ELSE IF Len(kept) = 1
        THEN copyAsDirect([heap |-> h, dependencies |-> <<>>],
                          h[kept[1]].children)
        ELSE [heap |-> h, dependencies |-> roots]

normalize(h, roots) ==
    LET kept == removePoms(h, roots)
    IN  IF Len(kept) > 1
        THEN [heap |-> markModules(h, kept, kept), dependencies |-> kept]
        ELSE IF Len(kept) = 1
        THEN copyAsDirect([heap |-> h, dependencies |-> <<>>],
                          h[kept[1]].children)
        ELSE [heap |-> h, dependencies |-> kept]

(***************************************************************************)
(* Differ helpers                                                          *)
(***************************************************************************)
nameOf(d) == getName(d.identifier)

versionOf(d) == getVersion(d.identifier)

keyOf(d) == nameOf(d) \o "@" \o versionOf(d)

\* the elements of a list, as a set
Range(s) == {s[i] : i \in DOMAIN s}

\* the nodes of heap h reachable from the nodes `from` along child lists
RECURSIVE ReachableFrom(_, _)
ReachableFrom(h, from) ==
    LET more == from \cup UNION {Range(h[n].children) : n \in from}
    IN  IF more = from THEN from ELSE ReachableFrom(h, more)

\* no node of heap h is its own descendant (the data model's invariant)
Acyclic(h) ==
    \A n \in DOMAIN h : n \notin ReachableFrom(h, Range(h[n].children))

\* [left-hand list reversed]; used only by a mutant below
RECURSIVE Reverse(_)
Reverse(s) == IF s = <<>> THEN <<>> ELSE Reverse(Tail(s)) \o <<Head(s)>>

computeDiff_reordered(left, right) ==
    LET rightSet == {keyOf(r) : r \in Range(right)}
    IN  Reverse(SelectSeq(left, LAMBDA d : keyOf(d) \notin rightSet))

\* a diff that takes the children of the other side's roots for members
computeDiff_deep(left, right) ==
    LET rightSet == {keyOf(r) : r \in Range(right)}
                      \cup UNION {{keyOf(c) : c \in Range(r.children)} :
                                     r \in Range(right)}
    IN  SelectSeq(left, LAMBDA d : keyOf(d) \notin rightSet)

computeDiff(left, right) ==
    LET rightSet == {keyOf(r) : r \in Range(right)}
    IN  SelectSeq(left, LAMBDA d : keyOf(d) \notin rightSet)

\* Map.set over the baseline list, in order: a later entry overwrites
RECURSIVE indexByName(_, _)
indexByName(master, map) ==
    IF master = <<>> THEN map
    ELSE LET m == Head(master)
         IN  indexByName(Tail(master),
                 [n \in DOMAIN map \cup {nameOf(m)} |->
                     IF n = nameOf(m) THEN m ELSE map[n]])

\* the same loop, keeping the first entry of a name
RECURSIVE indexByName_firstWins(_, _)
indexByName_firstWins(master, map) ==
    IF master = <<>> THEN map
    ELSE LET m == Head(master)
         IN  indexByName_firstWins(Tail(master),
                 [n \in DOMAIN map \cup {nameOf(m)} |->
                     IF n \in DOMAIN map THEN map[n] ELSE m])

\* the loop over the candidate list
RECURSIVE collectUpgrades(_, _)
collectUpgrades(masterByName, source) ==
    IF source = <<>> THEN <<>>
    ELSE LET s == Head(source)
             hit == nameOf(s) \in DOMAIN masterByName
             m == masterByName[nameOf(s)]
         IN  (IF hit /\ versionOf(m) # versionOf(s)
                 THEN <<[name |-> nameOf(s), from |-> m, to |-> s]>>
                 ELSE <<>>)
             \o collectUpgrades(masterByName, Tail(source))

detectUpgrades_firstWins(master, source) ==
    collectUpgrades(indexByName_firstWins(master, EmptyMap), source)

detectUpgrades(master, source) ==
    collectUpgrades(indexByName(master, EmptyMap), source)

\* run(): the cross-filter of the raw lists against the upgrade pairs
filterIntroduced_unfiltered(raw, ups) == raw

filterIntroduced(raw, ups) ==
    SelectSeq(raw, LAMBDA d : ~ \E i \in DOMAIN ups : keyOf(ups[i].to) = keyOf(d))

filterRemoved_unfiltered(raw, ups) == raw

\* the second filter written as a copy of the first (u.to for u.from)
filterRemoved_byTo(raw, ups) ==
    SelectSeq(raw, LAMBDA d : ~ \E i \in DOMAIN ups : keyOf(ups[i].to) = keyOf(d))

filterRemoved(raw, ups) ==
    SelectSeq(raw, LAMBDA d : ~ \E i \in DOMAIN ups : keyOf(ups[i].from) = keyOf(d))

(***************************************************************************)
(* The differ's inputs: two classified forests.  A root carries the       *)
(* artifact name and version the differ reads; `ref` is the object's      *)
(* identity (the differ hands the same objects on to its result lists).   *)
(***************************************************************************)
\* artifact names; "a@1" makes the key of (a@1, 1) collide with that of (a, 1@1)
Names == {"a", "a@1"}

\* versions; "" is the empty last part of "g:a:jar:", read back as "n/a"
Versions == {"1", "1@1", ""}

RootOf(ref, name, version) ==
    [ref        |-> ref,
     identifier |-> createMavenIdentifier("g", name, "jar", "", version),
     scope      |-> UNDEFINED,
     children   |-> <<>>,
     isModule   |-> FALSE,
     isDirect   |-> "true"]

\* every root list of at most MaxRoots roots; side is "m" or "s"
Forests(side) ==
    UNION {
        {[i \in 1..n |-> RootOf(<<side, i>>, f[i][1], f[i][2])] :
            f \in [1..n -> Names \X Versions]} :
        n \in 0..MaxRoots}

(***************************************************************************)
(* The parts of the program a specification leaves out stay idle          *)
(***************************************************************************)
(***************************************************************************)
(* ComponentIdentifier.toJson                                              *)
(***************************************************************************)
\* the characters a coordinate string is drawn from: the separator, a plain
\* character, the backslash
CoordChars == {":", "a", "\\"}

\* what JSON.parse throws
SyntaxError == "<SyntaxError>"

\* the characters of a coordinate part
PartChars == CoordChars \ {":"}

RECURSIVE Join(_)
Join(chars) == IF chars = <<>> THEN "" ELSE Head(chars) \o Join(Tail(chars))

\* the characters of the string `str` (a coordinate part)
Chars(str) ==
    CHOOSE chars \in UNION {[1..n -> PartChars] : n \in 0..MaxCoordLen} :
        Join(chars) = str

\* JSON.parse on the body of a string literal that starts at `chars` and runs
\* to the quote the replacer appended: a plain character stands for itself,
\* '\\' for one backslash; a backslash before another character is a bad
\* escape, and a backslash at the end escapes the appended quote, which
\* leaves the text malformed
RECURSIVE JsonStringBody(_)
JsonStringBody(chars) ==
    IF chars = <<>> THEN ""
    ELSE IF Head(chars) # "\\"
    THEN LET rest == JsonStringBody(Tail(chars))
         IN  IF rest = SyntaxError THEN SyntaxError ELSE Head(chars) \o rest
    ELSE IF Len(chars) >= 2 /\ chars[2] = "\\"
    THEN LET rest == JsonStringBody(Tail(Tail(chars)))
         IN  IF rest = SyntaxError THEN SyntaxError ELSE "\\" \o rest
    ELSE SyntaxError

\* '"' + entry[0] + '":"' + entry[1] + '"' read back by JSON.parse: the value
\* undefined is concatenated as the text undefined
JsonValue(value) ==
    IF value = UNDEFINED THEN "undefined" ELSE JsonStringBody(Chars(value))

\* JSON.parse throws on the text concatenated from the coordinates Map
Unparsable(coordinates) ==
    \E key \in DOMAIN coordinates : JsonValue(coordinates[key]) = SyntaxError

\* a call that ended in a throw
Thrown(error) == [threw |-> error]

\* replacer on the coordinates Map: the object JSON.parse returns for the
\* concatenated text, or the SyntaxError it throws
replacer(coordinates) ==
    IF Unparsable(coordinates) THEN Thrown(SyntaxError)
    ELSE [key \in DOMAIN coordinates |-> JsonValue(coordinates[key])]

\* JSON.stringify(this, replacer): the document, given as the object it
\* encodes (the enumerable fields format and coordinates), or the error
toJson(identifier) ==
    IF Unparsable(identifier.coordinates) THEN Thrown(SyntaxError)
    ELSE [format |-> identifier.format,
          coordinates |-> replacer(identifier.coordinates)]

DiffIdle ==
    /\ pc = "idle"
    /\ masterDependencies = <<>>
    /\ sourceDependencies = <<>>
    /\ upgrades = <<>>
    /\ introducedRaw = <<>>
    /\ removedRaw = <<>>
    /\ introduced = <<>>
    /\ removed = <<>>

CoordIdle ==
    /\ cpc = "idle"
    /\ coordinateString = <<>>
    /\ mavenCoordinates = <<>>
    /\ dependency = UNDEFINED
    /\ json = UNDEFINED

ParseIdle ==
    /\ ppc = "idle"
    /\ lineIndex = 0
    /\ inDiagraphSection = FALSE
    /\ allModules = <<>>
    /\ thisModule = <<>>
    /\ heap = <<>>
    /\ dependencies = <<>>

IdIdle ==
    /\ ipc = "idle"
    /\ thisId = UNDEFINED
    /\ otherId = UNDEFINED
    /\ called = UNDEFINED
    /\ returnValue = UNDEFINED

ReportIdle ==
    /\ rpc = "idle"
    /\ introducedList = <<>>
    /\ upgradeList = <<>>
    /\ removedList = <<>>
    /\ reportIndex = [new |-> 0, upgrades |-> 0, removed |-> 0]
    /\ lastReport = [section |-> "none"]

CommentIdle ==
    /\ comments = <<>>
    /\ postCalls = 0
    /\ lastPost = [outcome |-> "none"]
    /\ lastPosted = UNDEFINED

(***************************************************************************)
(* run(): lines 257-264                                                    *)
(***************************************************************************)
InitDiff ==
    /\ pc = "parsed"
    /\ masterDependencies \in Forests("m")
    /\ sourceDependencies \in Forests("s")
    /\ upgrades = <<>>
    /\ introducedRaw = <<>>
    /\ removedRaw = <<>>
    /\ introduced = <<>>
    /\ removed = <<>>
    /\ CoordIdle
    /\ ParseIdle
    /\ IdIdle
    /\ ReportIdle
    /\ CommentIdle

DetectUpgrades ==
    /\ pc = "parsed"
    /\ upgrades' = detectUpgrades(masterDependencies, sourceDependencies)
    /\ pc' = "upgrades"
    /\ UNCHANGED <<masterDependencies, sourceDependencies, introducedRaw,
                   removedRaw, introduced, removed>>
    /\ UNCHANGED notDiffVars

ComputeRawDiffs ==
    /\ pc = "upgrades"
    /\ introducedRaw' = computeDiff(sourceDependencies, masterDependencies)
    /\ removedRaw' = computeDiff(masterDependencies, sourceDependencies)
    /\ pc' = "raw"
    /\ UNCHANGED <<masterDependencies, sourceDependencies, upgrades,
                   introduced, removed>>
    /\ UNCHANGED notDiffVars

FilterUpgradePairs ==
    /\ pc = "raw"
    /\ introduced' = filterIntroduced(introducedRaw, upgrades)
    /\ removed' = filterRemoved(removedRaw, upgrades)
    /\ pc' = "filtered"
    /\ UNCHANGED <<masterDependencies, sourceDependencies, upgrades,
                   introducedRaw, removedRaw>>
    /\ UNCHANGED notDiffVars

NextDiff ==
    \/ DetectUpgrades
    \/ ComputeRawDiffs
    \/ FilterUpgradePairs

SpecDiff == InitDiff /\ [][NextDiff]_vars

(***************************************************************************)
(* One endpoint: split(':'), then createDependencyFromMavenCoordinates    *)
(* (the edge loop's lines 517-518 and 525-526, on one string)              *)
(***************************************************************************)
\* every non-empty string of at most MaxCoordLen characters (the edge
\* pattern's [^"]+ never yields an empty one)
CoordStrings ==
    UNION {[1..n -> CoordChars] : n \in 1..MaxCoordLen}

InitCoord ==
    /\ cpc = "split"
    /\ coordinateString \in CoordStrings
    /\ mavenCoordinates = <<>>
    /\ dependency = UNDEFINED
    /\ json = UNDEFINED
    /\ DiffIdle
    /\ ParseIdle
    /\ IdIdle
    /\ ReportIdle
    /\ CommentIdle

SplitCoordinates ==
    /\ cpc = "split"
    /\ mavenCoordinates' = Split(coordinateString)
    /\ cpc' = "create"
    /\ UNCHANGED <<coordinateString, dependency, json>>
    /\ UNCHANGED notCoordVars

CreateDependency ==
    /\ cpc = "create"
    /\ dependency' = createDependencyFromMavenCoordinates(mavenCoordinates)
    /\ cpc' = "created"
    /\ UNCHANGED <<coordinateString, mavenCoordinates, json>>
    /\ UNCHANGED notCoordVars

\* componentIdentifier.toJson() on the identifier of the node
Serialize ==
    /\ cpc = "created"
    /\ json' = toJson(dependency.identifier)
    /\ cpc' = "serialized"
    /\ UNCHANGED <<coordinateString, mavenCoordinates, dependency>>
    /\ UNCHANGED notCoordVars

NextCoord ==
    \/ SplitCoordinates
    \/ CreateDependency
    \/ Serialize

SpecCoord == InitCoord /\ [][NextCoord]_vars

(***************************************************************************)
(* parseDependencyTreeOutput on an input text                              *)
(***************************************************************************)
\* endpoint coordinate strings
CoordA == <<"g", ":", "a", ":", "j", "a", "r", ":", "1">>

CoordB == <<"g", ":", "b", ":", "j", "a", "r", ":", "1", ":", "c">>

CoordC == <<"g", ":", "c", ":", "j", "a", "r", ":", "x", ":", "1", ":", "t">>

\* the identifier of CoordA under another raw string (a scope added)
CoordA5 == <<"g", ":", "a", ":", "j", "a", "r", ":", "1", ":", "c">>

CoordP == <<"g", ":", "p", ":", "p", "o", "m", ":", "1">>

\* three parts only
CoordX == <<"g", ":", "x", ":", "j", "a", "r">>

InfoPrefix == <<"[", "I", "N", "F", "O", "]", " ">>

\* '[INFO] "left" -> "right" ; '
EdgeLine(left, right) ==
    InfoPrefix \o <<Q>> \o left \o Arrow \o right \o <<Q, " ", ";", " ">>

\* '[INFO] digraph "g:a:jar:1" { '
StartLine == DigraphStart \o <<" ", Q>> \o CoordA \o <<Q, " ", "{", " ">>

\* an edge line that lost its closing quote
BrokenLine == InfoPrefix \o <<Q>> \o CoordA \o Arrow \o CoordB \o <<" ", ";">>

\* the lines an input text is made of
InputLines ==
    {StartLine, DigraphEnd, BrokenLine,
     EdgeLine(CoordA, CoordB), EdgeLine(CoordA, CoordC),
     EdgeLine(CoordB, CoordA5), EdgeLine(CoordB, CoordA),
     EdgeLine(CoordP, CoordA), EdgeLine(CoordA, CoordP),
     EdgeLine(CoordC, CoordP), EdgeLine(CoordA, CoordA5),
     EdgeLine(CoordA, CoordX)}

\* the input text is any list of 1..MaxLines of these lines (split(/\r?\n/)
\* yields at least one); a line is drawn when the scanner comes to it
Init ==
    /\ ppc = "scan"
    /\ lineIndex = 0
    /\ inDiagraphSection = FALSE
    /\ allModules = <<>>
    /\ thisModule = <<>>
    /\ heap = <<>>
    /\ dependencies = <<>>
    /\ DiffIdle
    /\ CoordIdle
    /\ IdIdle
    /\ ReportIdle
    /\ CommentIdle

\* the scanner's loop, one line per step
ScanLine ==
    /\ ppc = "scan"
    /\ lineIndex < MaxLines
    /\ \E dependencyTreeOutputLine \in InputLines :
           LET scanner == scanLine([inDiagraphSection |-> inDiagraphSection,
                                    allModules |-> allModules,
                                    thisModule |-> thisModule],
                                   dependencyTreeOutputLine)
           IN  /\ inDiagraphSection' = scanner.inDiagraphSection
               /\ allModules' = scanner.allModules
               /\ thisModule' = scanner.thisModule
    /\ lineIndex' = lineIndex + 1
    /\ UNCHANGED <<ppc, heap, dependencies>>
    /\ UNCHANGED notParseVars

\* the edge loop over the closed subgraphs (part_001: non-edge lines skipped),
\* once the scanner is through the text
ParseModules ==
    /\ ppc = "scan"
    /\ lineIndex >= 1
    /\ LET st == edgeLoop(allModules, TRUE)
       IN  /\ heap' = st.heap
           /\ dependencies' = st.dependencies
    /\ ppc' = "normalize"
    /\ UNCHANGED <<lineIndex, inDiagraphSection, allModules, thisModule>>
    /\ UNCHANGED notParseVars

\* the edge loop as src/index.ts has it: matches![1] on every line
ParseModules_indexTs ==
    /\ ppc = "scan"
    /\ lineIndex >= 1
    /\ LET st == edgeLoop(allModules, FALSE)
       IN  IF st.threw
           THEN /\ ppc' = "threw"
                /\ UNCHANGED <<heap, dependencies>>
           ELSE /\ ppc' = "normalize"
                /\ heap' = st.heap
                /\ dependencies' = st.dependencies
    /\ UNCHANGED <<lineIndex, inDiagraphSection, allModules, thisModule>>
    /\ UNCHANGED notParseVars

\* a normalizer that returns only when no node is its own descendant
Normalize_acyclicOnly ==
    /\ ppc = "normalize"
    /\ Acyclic(heap)
    /\ LET result == normalize(heap, dependencies)
       IN  /\ heap' = result.heap
           /\ dependencies' = result.dependencies
    /\ ppc' = "returned"
    /\ UNCHANGED <<lineIndex, inDiagraphSection, allModules, thisModule>>
    /\ UNCHANGED notParseVars

\* the pom filter, the module marking or the single-root unwrapping, return
Normalize ==
    /\ ppc = "normalize"
    /\ LET result == normalize(heap, dependencies)
       IN  /\ heap' = result.heap
           /\ dependencies' = result.dependencies
    /\ ppc' = "returned"
    /\ UNCHANGED <<lineIndex, inDiagraphSection, allModules, thisModule>>
    /\ UNCHANGED notParseVars

Next ==
    \/ ScanLine
    \/ ParseModules
    \/ ParseModules_indexTs
    \/ Normalize

Spec == Init /\ [][Next]_vars

(***************************************************************************)
(* Forest Differ: the claims                                              *)
(***************************************************************************)
Diffed == pc = "filtered"

masterKeys == {keyOf(m) : m \in Range(masterDependencies)}

sourceKeys == {keyOf(d) : d \in Range(sourceDependencies)}

\* how often the object `ref` occurs in a list of nodes
Occurrences(list, ref) == Cardinality({k \in DOMAIN list : list[k].ref = ref})

\* the position in the baseline list of the last root named n
LastNamed(n) ==
    CHOOSE i \in DOMAIN masterDependencies :
        /\ nameOf(masterDependencies[i]) = n
        /\ \A j \in DOMAIN masterDependencies :
               j > i => nameOf(masterDependencies[j]) # n

\* candidate root j has a namesake in the baseline, and the last such
\* namesake has another version
HasUpgradeSource(j) ==
    LET s == sourceDependencies[j]
    IN  /\ \E i \in DOMAIN masterDependencies :
               nameOf(masterDependencies[i]) = nameOf(s)
        /\ versionOf(masterDependencies[LastNamed(nameOf(s))]) # versionOf(s)

IsUpgradeTo(d) == \E k \in DOMAIN upgrades : upgrades[k].to.ref = d.ref

IsUpgradeFrom(d) == \E k \in DOMAIN upgrades : upgrades[k].from.ref = d.ref

HasUpgradeFromKey(d) ==
    \E k \in DOMAIN upgrades : keyOf(upgrades[k].from) = keyOf(d)

HasUpgradeToKey(d) ==
    \E k \in DOMAIN upgrades : keyOf(upgrades[k].to) = keyOf(d)

\* C1: the Upgraded list holds exactly one triple (name, from, to) for every
\* candidate root that has a baseline namesake whose version differs, `from`
\* being the last baseline root of that name (and the version compared being
\* that root's), and no other triple.
C1_UpgradedTriples ==
    pc \in {"upgrades", "raw", "filtered"} =>
        /\ \A j \in DOMAIN sourceDependencies :
               Occurrences([k \in DOMAIN upgrades |-> upgrades[k].to],
                           sourceDependencies[j].ref)
                 = IF HasUpgradeSource(j) THEN 1 ELSE 0
        /\ \A k \in DOMAIN upgrades :
               \E j \in DOMAIN sourceDependencies :
                   /\ upgrades[k].to = sourceDependencies[j]
                   /\ upgrades[k].name = nameOf(sourceDependencies[j])
                   /\ upgrades[k].from =
                        masterDependencies[LastNamed(nameOf(sourceDependencies[j]))]

\* two baseline roots share a name with different versions, and an upgrade
\* was recorded from the later one
C1_Witness ==
    /\ Diffed
    /\ Len(masterDependencies) = 2
    /\ nameOf(masterDependencies[1]) = nameOf(masterDependencies[2])
    /\ versionOf(masterDependencies[1]) # versionOf(masterDependencies[2])
    /\ \E k \in DOMAIN upgrades :
           /\ upgrades[k].from.ref = masterDependencies[2].ref
           /\ versionOf(upgrades[k].to) = versionOf(masterDependencies[1])

\* C2 as stated: the Introduced list consists of exactly the candidate roots
\* whose name@version key equals no baseline root's key and that are not (as
\* objects) the `to` side of a recorded upgrade, each once.
C2_IntroducedExact_ByNode ==
    Diffed =>
        /\ \A j \in DOMAIN sourceDependencies :
               LET d == sourceDependencies[j]
               IN  Occurrences(introduced, d.ref)
                     = IF keyOf(d) \notin masterKeys /\ ~ IsUpgradeTo(d)
                       THEN 1 ELSE 0
        /\ Range(introduced) \subseteq Range(sourceDependencies)

\* C2 amended: the Introduced list consists of exactly the candidate roots
\* whose key equals no baseline root's key and whose key is not the key of
\* the `to` side of a recorded upgrade, each once.
C2_IntroducedExact_ByKey ==
    Diffed =>
        /\ \A j \in DOMAIN sourceDependencies :
               LET d == sourceDependencies[j]
               IN  Occurrences(introduced, d.ref)
                     = IF keyOf(d) \notin masterKeys /\ ~ HasUpgradeToKey(d)
                       THEN 1 ELSE 0
        /\ Range(introduced) \subseteq Range(sourceDependencies)

\* one candidate root is introduced, another has a new key but is kept out
\* as the `to` side of an upgrade
C2_Witness ==
    /\ Diffed
    /\ introduced # <<>>
    /\ \E d \in Range(sourceDependencies) :
           keyOf(d) \notin masterKeys /\ IsUpgradeTo(d)

\* C3 as stated: the Removed list consists of exactly the baseline roots whose
\* key equals no candidate root's key and that are not (as objects) the `from`
\* side of a recorded upgrade, each once.
C3_RemovedExact_ByNode ==
    Diffed =>
        /\ \A i \in DOMAIN masterDependencies :
               LET d == masterDependencies[i]
               IN  Occurrences(removed, d.ref)
                     = IF keyOf(d) \notin sourceKeys /\ ~ IsUpgradeFrom(d)
                       THEN 1 ELSE 0
        /\ Range(removed) \subseteq Range(masterDependencies)

\* C3 amended: the Removed list consists of exactly the baseline roots whose
\* key equals no candidate root's key and whose key is not the key of the
\* `from` side of a recorded upgrade, each once.
C3_RemovedExact_ByKey ==
    Diffed =>
        /\ \A i \in DOMAIN masterDependencies :
               LET d == masterDependencies[i]
               IN  Occurrences(removed, d.ref)
                     = IF keyOf(d) \notin sourceKeys /\ ~ HasUpgradeFromKey(d)
                       THEN 1 ELSE 0
        /\ Range(removed) \subseteq Range(masterDependencies)

\* one baseline root is removed, another is gone from the candidate but kept
\* out as the `from` side of an upgrade
C3_Witness ==
    /\ Diffed
    /\ removed # <<>>
    /\ \E d \in Range(masterDependencies) :
           keyOf(d) \notin sourceKeys /\ IsUpgradeFrom(d)

\* C4: diff completeness.  Every baseline root is in exactly one of Removed,
\* Upgraded-from, present-in-both-unchanged, and every candidate root in
\* exactly one of Introduced, Upgraded-to, present-in-both-unchanged.
\* (Membership in the upgrade sides is taken by key, the reading under which
\* the most roots are covered.)
CategoriesOfBaseline(d) ==
    (IF Occurrences(removed, d.ref) > 0 THEN {"Removed"} ELSE {})
    \cup (IF HasUpgradeFromKey(d) THEN {"UpgradedFrom"} ELSE {})
    \cup (IF keyOf(d) \in sourceKeys THEN {"Unchanged"} ELSE {})

CategoriesOfCandidate(d) ==
    (IF Occurrences(introduced, d.ref) > 0 THEN {"Introduced"} ELSE {})
    \cup (IF HasUpgradeToKey(d) THEN {"UpgradedTo"} ELSE {})
    \cup (IF keyOf(d) \in masterKeys THEN {"Unchanged"} ELSE {})

C4_DiffCompleteness ==
    Diffed =>
        /\ \A d \in Range(masterDependencies) :
               Cardinality(CategoriesOfBaseline(d)) = 1
        /\ \A d \in Range(sourceDependencies) :
               Cardinality(CategoriesOfCandidate(d)) = 1

\* C5: diff disjointness.  No name@version key occurs in more than one of the
\* final Introduced list, the final Removed list and the sides of the
\* Upgraded list.
C5_DiffDisjoint ==
    Diffed =>
        LET inKeys == {keyOf(d) : d \in Range(introduced)}
            outKeys == {keyOf(d) : d \in Range(removed)}
            upKeys == {keyOf(upgrades[k].from) : k \in DOMAIN upgrades}
                      \cup {keyOf(upgrades[k].to) : k \in DOMAIN upgrades}
        IN  /\ inKeys \cap outKeys = {}
            /\ inKeys \cap upKeys = {}
            /\ outKeys \cap upKeys = {}

\* all three result lists are non-empty at once
C5_Witness ==
    /\ Diffed
    /\ introduced # <<>>
    /\ removed # <<>>
    /\ upgrades # <<>>

\* C6: no reordering.  Introduced and Upgraded (by its `to` side) list their
\* nodes in candidate order, Removed in baseline order.
InListOrder(list) ==
    \A p, q \in DOMAIN list : p < q => list[p].ref[2] < list[q].ref[2]

C6_OrderPreserved ==
    /\ pc \in {"raw", "filtered"} =>
           InListOrder(introducedRaw) /\ InListOrder(removedRaw)
    /\ Diffed =>
           /\ InListOrder(introduced)
           /\ InListOrder(removed)
           /\ InListOrder([k \in DOMAIN upgrades |-> upgrades[k].to])

\* two nodes introduced and two removed, so each list has an order to keep
C6_Witness ==
    /\ Diffed
    /\ Len(introduced) = 2
    /\ Len(removed) = 2


(***************************************************************************)
(* The differ on forests whose roots have children                         *)
(***************************************************************************)
\* the (name, version) pairs of the roots
DeepRoots == {<<"a", "1">>, <<"a", "2">>, <<"b", "1">>}

\* a root's child list: none, or one child with the name and version of a
\* possible root of either forest
DeepChildLists(ref) == {<<>>, <<RootOf(<<ref, 1>>, "a", "1")>>}

\* every root list of at most MaxRoots roots, with and without children
DeepForests(side) ==
    UNION {
        {[i \in 1..n |-> [RootOf(<<side, i>>, f[i][1][1], f[i][1][2])
                             EXCEPT !.children = f[i][2]]] :
            f \in [1..n -> DeepRoots \X DeepChildLists(side)]} :
        n \in 0..MaxRoots}

InitDiffDeep ==
    /\ pc = "parsed"
    /\ masterDependencies \in DeepForests("m")
    /\ sourceDependencies \in DeepForests("s")
    /\ upgrades = <<>>
    /\ introducedRaw = <<>>
    /\ removedRaw = <<>>
    /\ introduced = <<>>
    /\ removed = <<>>
    /\ CoordIdle
    /\ ParseIdle
    /\ IdIdle
    /\ ReportIdle
    /\ CommentIdle

SpecDiffDeep == InitDiffDeep /\ [][NextDiff]_vars

\* the forest with every child list emptied: what is left is the sequence
\* of root-level (name, version) pairs
RootLevel(forest) == [i \in DOMAIN forest |-> [forest[i] EXCEPT !.children = <<>>]]

\* the roots of a result list, by the object they are
RefsOf(list) == [k \in DOMAIN list |-> list[k].ref]

\* C27: set membership in the differ is root-level only.  The Introduced,
\* Removed and Upgraded classification of the roots is the one the differ
\* gives to the two forests with every child list emptied, so two pairs of
\* forests whose root-level (name, version) sequences agree are classified
\* alike, whatever their children are.
C27_RootLevelOnly ==
    Diffed =>
        LET master == RootLevel(masterDependencies)
            source == RootLevel(sourceDependencies)
            ups == detectUpgrades(master, source)
        IN  /\ RefsOf(introduced) =
                 RefsOf(filterIntroduced(computeDiff(source, master), ups))
            /\ RefsOf(removed) =
                 RefsOf(filterRemoved(computeDiff(master, source), ups))
            /\ [k \in DOMAIN upgrades |->
                   <<upgrades[k].name, upgrades[k].from.ref, upgrades[k].to.ref>>]
                 = [k \in DOMAIN ups |->
                       <<ups[k].name, ups[k].from.ref, ups[k].to.ref>>]

\* the differ ran on forests with children: a candidate root that has a
\* child is introduced though a child in the baseline has its name and
\* version, and a baseline root is removed
C27_Witness ==
    /\ Diffed
    /\ \E d \in Range(introduced) :
           /\ d.children # <<>>
           /\ \E m \in Range(masterDependencies) :
                  \E c \in Range(m.children) : keyOf(c) = keyOf(d)
    /\ removed # <<>>

(***************************************************************************)
(* Coordinate Model: the claims                                           *)
(***************************************************************************)
Fields(d) == d.identifier.coordinates

\* C8: coordinate parts are placed by length.  4 parts: group, artifact,
\* extension, version, with classifier '' and no scope; 5 parts: the same
\* with scope = 5th part; 6 parts: group, artifact, extension, classifier,
\* version, with scope = 6th part.
C8_PlacedByLength ==
    cpc = "created" =>
        LET p == mavenCoordinates
            f == Fields(dependency)
        IN  /\ Len(p) \in {4, 5} =>
                   /\ f.groupId = p[1]
                   /\ f.artifactId = p[2]
                   /\ f.extension = p[3]
                   /\ f.version = p[4]
                   /\ f.classifier = ""
            /\ Len(p) = 4 => dependency.scope = UNDEFINED
            /\ Len(p) = 5 => dependency.scope = p[5]
            /\ Len(p) = 6 =>
                   /\ f.groupId = p[1]
                   /\ f.artifactId = p[2]
                   /\ f.extension = p[3]
                   /\ f.classifier = p[4]
                   /\ f.version = p[5]
                   /\ dependency.scope = p[6]

\* a 6-part string whose classifier and version parts differ has been parsed
C8_Witness ==
    /\ cpc = "created"
    /\ Len(mavenCoordinates) = 6
    /\ mavenCoordinates[4] # mavenCoordinates[5]
    /\ Fields(dependency).classifier = mavenCoordinates[4]

(***************************************************************************)
(* Graph Text Parser and Tree Normalizer: the claims                      *)
(***************************************************************************)
\* the lines of a subgraph buffer that match the edge pattern
EdgeLinesOf(module) == SelectSeq(module, LAMBDA line : exec(line) # <<>>)

\* a coordinate string that does not split into 4, 5 or 6 parts
Malformed(raw) == Len(Split(raw)) \notin {4, 5, 6}

\* some edge of a closed subgraph has a malformed endpoint
HasMalformedEndpoint ==
    \E m \in DOMAIN allModules :
        \E i \in DOMAIN allModules[m] :
            LET matches == exec(allModules[m][i])
            IN  /\ matches # <<>>
                /\ Malformed(matches[2]) \/ Malformed(matches[3])

\* C7: parsing an edge with an endpoint that splits into a number of parts
\* other than 4, 5 or 6 fails (with a ParseError naming the string): the
\* parse goes no further and returns no forest.
C7_MalformedCoordinateRaises ==
    ppc \in {"normalize", "returned"} => ~ HasMalformedEndpoint

\* C9: a line of a subgraph block that does not match the edge pattern is
\* skipped without raising (the edge loop ends as it does on the block
\* without that line), and subgraphs yielding no edge contribute no root.
C9_NonEdgeLinesSkipped ==
    /\ ppc # "threw"
    /\ ppc = "normalize" =>
           LET clean == edgeLoop([m \in DOMAIN allModules |->
                                     EdgeLinesOf(allModules[m])], TRUE)
           IN  /\ heap = clean.heap
               /\ dependencies = clean.dependencies
    /\ (ppc = "normalize"
          /\ \A m \in DOMAIN allModules : EdgeLinesOf(allModules[m]) = <<>>)
         => dependencies = <<>>

\* the positions of the root list whose node is not pom-typed
NonPomRoots ==
    {i \in DOMAIN dependencies :
        heap[dependencies[i]].identifier.coordinates.extension # "pom"}

\* C10: when exactly one root remains after the pom filter, that root is not
\* among the returned roots (and, the parsed graph being acyclic as the data
\* model has it, nowhere in the returned forest), and the returned roots are
\* its immediate children (the same fields, the same child lists), in
\* child-list order, each marked Direct.
C10_SingleRootUnwrapped ==
    [][(ppc = "normalize" /\ ppc' = "returned" /\ Cardinality(NonPomRoots) = 1)
         => LET root == dependencies[CHOOSE i \in NonPomRoots : TRUE]
                children == heap[root].children
            IN  /\ Len(dependencies') = Len(children)
                /\ \A k \in DOMAIN children :
                       /\ dependencies'[k] # root
                       /\ heap'[dependencies'[k]].isDirect = "true"
                       /\ heap'[dependencies'[k]] =
                            [heap[children[k]] EXCEPT !.isDirect = "true"]
                /\ Acyclic(heap) =>
                       root \notin ReachableFrom(heap', Range(dependencies'))
       ]_vars

\* what the edge loop made of the closed subgraphs, before normalization
Parsed == edgeLoop(allModules, TRUE)

\* a single root with two different children was unwrapped
C10_Witness ==
    /\ ppc = "returned"
    /\ Len(removePoms(Parsed.heap, Parsed.dependencies)) = 1
    /\ Len(dependencies) = 2
    /\ heap[dependencies[1]].identifier # heap[dependencies[2]].identifier
    /\ \A k \in DOMAIN dependencies : heap[dependencies[k]].isDirect = "true"

(***************************************************************************)
(* Claims about the multi-root normalization                               *)
(***************************************************************************)
\* a Normalize step taken with more than one root left by the pom filter
MultiRootStep ==
    ppc = "normalize" /\ ppc' = "returned" /\ Cardinality(NonPomRoots) > 1

\* the nodes in the child lists of the nodes `parents` of heap h
ChildrenOf(h, parents) == UNION {Range(h[n].children) : n \in parents}

\* C11: when more than one root remains after the pom filter, every remaining
\* root is marked Module (isModule set, isDirect undefined), every node left
\* in a module root's child list is marked Direct, and every node reachable
\* from the roots only at depth two or more stays Transitive (isDirect false).
C11_ModulesMarked ==
    [][MultiRootStep
         => LET roots == Range(dependencies')
                firstLevel == ChildrenOf(heap', roots)
                deeper == ReachableFrom(heap', roots) \ (roots \cup firstLevel)
            IN  /\ \A r \in roots :
                       heap'[r].isModule /\ heap'[r].isDirect = UNDEFINED
                /\ \A c \in firstLevel :
                       heap'[c].isDirect = "true" /\ ~ heap'[c].isModule
                /\ \A n \in deeper :
                       heap'[n].isDirect = "false" /\ ~ heap'[n].isModule
       ]_vars

\* two module roots were returned, one with a Direct child that has a
\* Transitive child of its own
C11_Witness ==
    /\ ppc = "returned"
    /\ Len(dependencies) = 2
    /\ \A k \in DOMAIN dependencies : heap[dependencies[k]].isModule
    /\ \E r \in Range(dependencies) :
           \E c \in Range(heap[r].children) :
               /\ heap[c].isDirect = "true"
               /\ \E n \in Range(heap[c].children) :
                      /\ n \notin Range(dependencies)
                      /\ n \notin ChildrenOf(heap, Range(dependencies))
                      /\ heap[n].isDirect = "false"

\* the child list of root r as parsed, less the children whose identifier
\* equals that of a root among `others`
ChildrenLess(r, others) ==
    SelectSeq(heap[r].children,
              LAMBDA child :
                  ~ \E o \in others :
                        equals(heap[child].identifier, heap[o].identifier))

\* C12 as stated: in the multi-root case each module root's child list after
\* normalization is its parsed child list, in order, minus the children whose
\* identifier equals the identifier of another module root.
C12_ChildrenFiltered_OtherRoot ==
    [][MultiRootStep
         => \A r \in Range(dependencies') :
                heap'[r].children =
                    ChildrenLess(r, Range(dependencies') \ {r})
       ]_vars

\* what the filter at 540-542 does instead: each module root's child list
\* after normalization is its parsed child list, in order, minus the children
\* whose identifier equals the identifier of any module root, its own included.
C12_ChildrenFiltered_AnyRoot ==
    [][MultiRootStep
         => \A r \in Range(dependencies') :
                heap'[r].children = ChildrenLess(r, Range(dependencies'))
       ]_vars

\* a module root lost one of its two parsed children to the filter
C12_Witness ==
    /\ ppc = "returned"
    /\ Len(dependencies) > 1
    /\ \A k \in DOMAIN dependencies : heap[dependencies[k]].isModule
    /\ \E r \in Range(dependencies) :
           /\ Len(Parsed.heap[r].children) = 2
           /\ Len(heap[r].children) = 1

(***************************************************************************)
(* Claims about the pom filter                                             *)
(***************************************************************************)
IsPom(h, n) == h[n].identifier.coordinates.extension = "pom"

\* the parsed root list less its pom-typed entries, in order
NonPomRootList == SelectSeq(dependencies, LAMBDA r : ~ IsPom(heap, r))

\* C13: the pom filter removes exactly the root-level nodes whose extension
\* is 'pom', and the restructuring works on what the filter left (several
\* left: they are the returned roots; one left: its children are; none left:
\* nothing is); a pom-typed child of a surviving root is kept.
C13_PomFilterRootsOnly ==
    [][(ppc = "normalize" /\ ppc' = "returned")
         => LET kept == NonPomRootList
            IN  /\ Len(kept) > 1 =>
                       /\ dependencies' = kept
                       /\ \A r \in Range(kept) :
                              SelectSeq(heap'[r].children,
                                        LAMBDA c : IsPom(heap', c))
                                = SelectSeq(heap[r].children,
                                            LAMBDA c : IsPom(heap, c))
                /\ Len(kept) = 1 =>
                       LET children == heap[kept[1]].children
                       IN  /\ Len(dependencies') = Len(children)
                           /\ \A k \in DOMAIN children :
                                  heap'[dependencies'[k]].identifier
                                    = heap[children[k]].identifier
                /\ Len(kept) = 0 => dependencies' = <<>>
       ]_vars

\* a pom-typed root was parsed and dropped, and a pom-typed node is still in
\* the returned forest
C13_Witness ==
    /\ ppc = "returned"
    /\ \E r \in Range(Parsed.dependencies) : IsPom(Parsed.heap, r)
    /\ \A r \in Range(dependencies) :
           heap[r].identifier.coordinates.artifactId # "p"
             \/ r \notin Range(Parsed.dependencies)
    /\ \E n \in ReachableFrom(heap, Range(dependencies)) : IsPom(heap, n)

\* C14: when no root remains after the pom filter (the parsed root list is
\* empty or all pom-typed), normalization goes through (it is enabled, i.e.
\* nothing is raised) and returns the empty forest.
C14_EmptyForest ==
    /\ []((ppc = "normalize" /\ NonPomRoots = {}) => ENABLED Normalize)
    /\ [][(ppc = "normalize" /\ ppc' = "returned" /\ NonPomRoots = {})
            => dependencies' = <<>>]_vars

\* the only parsed root was pom-typed and the empty forest was returned
C14_Witness ==
    /\ ppc = "returned"
    /\ Len(Parsed.dependencies) = 1
    /\ IsPom(Parsed.heap, Parsed.dependencies[1])
    /\ dependencies = <<>>

(***************************************************************************)
(* Claims about the classification of the returned forest                  *)
(***************************************************************************)
\* the relationship a node's flags stand for
Classification(node) ==
    IF node.isModule THEN "Module"
    ELSE IF node.isDirect = "true" THEN "Direct"
    ELSE IF node.isDirect = "false" THEN "Transitive"
    ELSE "Unknown"

\* C15: in every forest returned by parse and normalize the root-level nodes
\* are all marked Module (isDirect undefined) or all marked Direct, and no
\* node reachable from the roots is unclassified.
C15_RootsUniform ==
    ppc = "returned" =>
        /\ \/ \A r \in Range(dependencies) :
                  heap[r].isModule /\ heap[r].isDirect = UNDEFINED
           \/ \A r \in Range(dependencies) :
                  Classification(heap[r]) = "Direct"
        /\ \A n \in ReachableFrom(heap, Range(dependencies)) :
               Classification(heap[n]) # "Unknown"

\* two Direct roots were returned, one of them with a Transitive child
C15_Witness ==
    /\ ppc = "returned"
    /\ Len(dependencies) = 2
    /\ \A r \in Range(dependencies) : Classification(heap[r]) = "Direct"
    /\ \E r \in Range(dependencies) :
           \E n \in Range(heap[r].children) :
               Classification(heap[n]) = "Transitive"

\* the returned forest, normalized once more with its roots as the root list
Renormalized == normalize(heap, dependencies)

\* C16: normalizing an already-normalized forest that holds no pom-typed node
\* (its roots taken as fresh root input) leaves the classification of every
\* node of that forest unchanged.
C16_NormalizeIdempotent ==
    LET nodes == ReachableFrom(heap, Range(dependencies))
    IN  (ppc = "returned" /\ \A n \in nodes : ~ IsPom(heap, n))
          => \A n \in nodes :
                 Classification(Renormalized.heap[n]) = Classification(heap[n])

(***************************************************************************)
(* A method call on a ComponentIdentifier                                  *)
(***************************************************************************)
\* format tags: the one the program uses, and another
IdFormats == {MAVEN, "npm"}

\* coordinate keys a Map may or may not hold
IdKeys == {"artifactId", "version"}

\* coordinate values: a string, the empty string (an empty coordinate part),
\* undefined (a part read past the end of a short coordinate array)
IdValues == {"a", "", UNDEFINED}

\* the Maps handed to the constructor
CoordinateMaps == UNION {[ks -> IdValues] : ks \in SUBSET IdKeys}

\* new ComponentIdentifier(format, coordinates)
Identifiers ==
    {[format |-> f, coordinates |-> c] : f \in IdFormats, c \in CoordinateMaps}

\* a JS boolean
Bool(b) == IF b THEN "true" ELSE "false"

InitId ==
    /\ ipc = "made"
    /\ thisId \in Identifiers
    /\ otherId \in Identifiers
    /\ called = UNDEFINED
    /\ returnValue = UNDEFINED
    /\ DiffIdle
    /\ CoordIdle
    /\ ParseIdle
    /\ ReportIdle
    /\ CommentIdle

\* thisId.equals(otherId)
CallEquals ==
    /\ ipc = "made"
    /\ called' = "equals"
    /\ returnValue' = Bool(equals(thisId, otherId))
    /\ ipc' = "called"
    /\ UNCHANGED <<thisId, otherId>>
    /\ UNCHANGED notIdVars

\* thisId.getName()
CallGetName ==
    /\ ipc = "made"
    /\ called' = "getName"
    /\ returnValue' = getName(thisId)
    /\ ipc' = "called"
    /\ UNCHANGED <<thisId, otherId>>
    /\ UNCHANGED notIdVars

\* thisId.getVersion()
CallGetVersion ==
    /\ ipc = "made"
    /\ called' = "getVersion"
    /\ returnValue' = getVersion(thisId)
    /\ ipc' = "called"
    /\ UNCHANGED <<thisId, otherId>>
    /\ UNCHANGED notIdVars

NextId ==
    \/ CallEquals
    \/ CallGetName
    \/ CallGetVersion

SpecId == InitId /\ [][NextId]_vars

(***************************************************************************)
(* Claims about ComponentIdentifier                                        *)
(***************************************************************************)
\* the method `name` has returned
Returned(name) == ipc = "called" /\ called = name

\* the format tags match, and every coordinate field present in either
\* identifier is present in the other with the same value
SameFields(a, b) ==
    /\ a.format = b.format
    /\ DOMAIN a.coordinates = DOMAIN b.coordinates
    /\ \A key \in DOMAIN a.coordinates :
           a.coordinates[key] = b.coordinates[key]

\* C17: equals is true iff the format tags match and every coordinate field
\* present in either identifier is present in the other with exactly the
\* same value; a field missing on one side makes them unequal.
C17_EqualsIffSameFields ==
    Returned("equals") =>
        (returnValue = "true" <=> SameFields(thisId, otherId))

\* equals answers the same in both directions
C17_EqualsSymmetric ==
    Returned("equals") =>
        returnValue = Bool(equals(otherId, thisId))

\* the version field of the receiver (undefined when the Map has none)
VersionField == MapGet(thisId.coordinates, "version")

\* C19 as stated: getName returns the artifact-name field, and getVersion
\* returns the version field when it is present and the sentinel "n/a" only
\* when it is absent.
C19_NameAndVersion_AbsentOnly ==
    /\ Returned("getName") =>
           returnValue = MapGet(thisId.coordinates, "artifactId")
    /\ Returned("getVersion") =>
           returnValue = IF VersionField # UNDEFINED THEN VersionField
                         ELSE "n/a"

\* C19, amended: getName returns the artifact-name field, and getVersion
\* returns the version field when it is present and not the empty string,
\* and the sentinel "n/a" when it is absent or the empty string.
C19_NameAndVersion_AbsentOrEmpty ==
    /\ Returned("getName") =>
           returnValue = MapGet(thisId.coordinates, "artifactId")
    /\ Returned("getVersion") =>
           returnValue = IF VersionField # UNDEFINED /\ VersionField # ""
                         THEN VersionField
                         ELSE "n/a"

\* getVersion answered the sentinel for a version field that holds the empty
\* string
C19_Witness ==
    /\ Returned("getVersion")
    /\ "version" \in DOMAIN thisId.coordinates
    /\ VersionField = ""
    /\ returnValue = "n/a"

(***************************************************************************)
(* Claims about the serialization of a parsed coordinate string            *)
(***************************************************************************)
\* the coordinate keys an identifier holds
CoordinateKeys ==
    {"groupId", "artifactId", "version", "classifier", "extension"}

\* C18: for every coordinate string of 4, 5 or 6 parts, parsing then toJson
\* yields group, artifact, extension and version as given, the classifier
\* as given when the 6-part shape was used (the empty default otherwise),
\* never the scope, and no field the identifier does not hold.
C18_RoundTrip ==
    (cpc = "serialized" /\ Len(mavenCoordinates) \in {4, 5, 6})
      => /\ json # Thrown(SyntaxError)
         /\ DOMAIN json = {"format", "coordinates"}
         /\ DOMAIN json.coordinates = CoordinateKeys
         /\ json.coordinates.groupId = mavenCoordinates[1]
         /\ json.coordinates.artifactId = mavenCoordinates[2]
         /\ json.coordinates.extension = mavenCoordinates[3]
         /\ IF Len(mavenCoordinates) = 6
            THEN /\ json.coordinates.classifier = mavenCoordinates[4]
                 /\ json.coordinates.version = mavenCoordinates[5]
            ELSE /\ json.coordinates.classifier = ""
                 /\ json.coordinates.version = mavenCoordinates[4]

\* the same for the coordinate strings that hold no backslash
C18_RoundTrip_Plain ==
    (\A i \in DOMAIN coordinateString : coordinateString[i] # "\\")
      => C18_RoundTrip

\* a 6-part string without a backslash was parsed and serialized
C18_Plain_Witness ==
    /\ cpc = "serialized"
    /\ Len(mavenCoordinates) = 6
    /\ \A i \in DOMAIN coordinateString : coordinateString[i] # "\\"
    /\ json # Thrown(SyntaxError)
    /\ json.coordinates.classifier = "a"

(***************************************************************************)
(* run(): the report, lines 307-469                                        *)
(***************************************************************************)
\* most entries of one section of the report
MaxReported == 1

\* getComponentSummary returned undefined (no credentials, or an empty
\* response array)
Absent == [kind |-> "absent"]

\* getComponentSummary threw (the request failed)
Threw == [kind |-> "threw"]

\* getComponentSummary returned a summary; an alert is given by the threat
\* level of its trigger
Summary(levels) == [kind |-> "summary", alerts |-> levels]

\* the alert lists tried
AlertLists == {<<>>, <<9, 5, 3, 0>>}

LookupOutcomes == {Absent, Threw} \cup {Summary(levels) : levels \in AlertLists}

\* a count that takes an absent summary for one finding
getNumberOfViolations_absentCounts(summary, lower, upper) ==
    IF summary.kind = "absent" THEN 1 ELSE 0

getNumberOfViolations(summary, lower, upper) ==
    IF summary.kind = "absent" THEN 0
    ELSE Cardinality({i \in DOMAIN summary.alerts :
                         /\ summary.alerts[i] # 0
                         /\ summary.alerts[i] >= lower
                         /\ summary.alerts[i] <= upper})

\* { c: ...(s, 8, 10), h: ...(s, 4, 7), m: ...(s, 2, 3) }
violations(summary) ==
    [c |-> getNumberOfViolations(summary, 8, 10),
     h |-> getNumberOfViolations(summary, 4, 7),
     m |-> getNumberOfViolations(summary, 2, 3)]

NoViolations == [c |-> 0, h |-> 0, m |-> 0]

\* summary?.alerts?.length
hasAlerts(summary) == summary.kind = "summary" /\ Len(summary.alerts) > 0

\* the loop over the children: quiet and absent ones are skipped
RECURSIVE transitiveViolations(_)
transitiveViolations(childSummaries) ==
    IF childSummaries = <<>> THEN NoViolations
    ELSE LET rest == transitiveViolations(Tail(childSummaries))
             this == violations(Head(childSummaries))
         IN  IF ~ hasAlerts(Head(childSummaries)) THEN rest
             ELSE [c |-> this.c + rest.c, h |-> this.h + rest.h,
                   m |-> this.m + rest.m]

\* renderAlertsTable: the fixed sentence when there is no row (every alert
\* taken to carry one constraint fact), else a table
renderAlertsTable(summary) ==
    IF ~ hasAlerts(summary)
    THEN "This component does not have any vulnerabilities."
    ELSE "table"

\* the child lists of the nodes reported
ChildLists == {<<>>, <<"c">>}

ReportNodes == {[name |-> "a", children |-> cs] : cs \in ChildLists}

NodeLists == UNION {[1..n -> ReportNodes] : n \in 0..MaxReported}

UpgradePairs == {[from |-> f, to |-> t] : f \in ReportNodes, t \in ReportNodes}

PairLists == UNION {[1..n -> UpgradePairs] : n \in 0..MaxReported}

\* the lookups of one entry, in one list
LookupsOf(directSummaries, childSummaries) ==
    Range(directSummaries)
      \cup UNION {Range(childSummaries[i]) : i \in DOMAIN childSummaries}

\* the getComponentSummary calls of one entry, in call order: <<i, 0>> is
\* the call for the i-th node of the entry, <<i, k>> a call for its k-th
\* child; the children are gone through once for the counts and, in the
\* sections that print them, once more for their tables
CallsOf(directSummaries, childSummaries, tableSummaries) ==
    LET ChildCalls(lists) ==
            IF lists = <<>> THEN <<>>
            ELSE [j \in 1..Len(lists[1]) |-> <<1, j>>]
                   \o (IF Len(lists) = 1 THEN <<>>
                       ELSE [j \in 1..Len(lists[2]) |-> <<2, j>>])
    IN  [i \in DOMAIN directSummaries |-> <<i, 0>>]
          \o ChildCalls(childSummaries) \o ChildCalls(tableSummaries)

\* what is kept of one entry: the summaries looked up and, unless a lookup
\* threw, the calls made and what was made of the summaries
ReportOf(section, directSummaries, childSummaries, tableSummaries) ==
    IF Threw \in LookupsOf(directSummaries, childSummaries \o tableSummaries)
    THEN [section |-> section,
          directSummaries |-> directSummaries,
          childSummaries |-> childSummaries,
          tableSummaries |-> tableSummaries]
    ELSE
    [section |-> section,
     directSummaries |-> directSummaries,
     childSummaries |-> childSummaries,
     tableSummaries |-> tableSummaries,
     calls |-> CallsOf(directSummaries, childSummaries, tableSummaries),
     direct |-> [i \in DOMAIN directSummaries |->
                    violations(directSummaries[i])],
     trans |-> [i \in DOMAIN childSummaries |->
                    transitiveViolations(childSummaries[i])],
     tables |-> [i \in DOMAIN directSummaries |->
                    renderAlertsTable(directSummaries[i])],
     childTables |-> [i \in DOMAIN tableSummaries |->
                         SelectSeq(tableSummaries[i], hasAlerts)]]

InitReport ==
    /\ rpc = "report"
    /\ introducedList \in NodeLists
    /\ upgradeList \in PairLists
    /\ removedList \in NodeLists
    /\ reportIndex = [new |-> 0, upgrades |-> 0, removed |-> 0]
    /\ lastReport = [section |-> "none"]
    /\ DiffIdle
    /\ CoordIdle
    /\ ParseIdle
    /\ IdIdle
    /\ CommentIdle

\* an entry that is reported whatever its lookups did
ReportEntry_swallowed(section, directSummaries, childSummaries, tableSummaries) ==
    /\ lastReport' = ReportOf(section, directSummaries, childSummaries,
                              tableSummaries)
    /\ rpc' = rpc
    /\ reportIndex' = [reportIndex EXCEPT ![section] = @ + 1]
    /\ UNCHANGED <<introducedList, upgradeList, removedList>>
    /\ UNCHANGED notReportVars

\* one entry of a section reported, or the run failed by a lookup that threw
ReportEntry(section, directSummaries, childSummaries, tableSummaries) ==
    /\ lastReport' = ReportOf(section, directSummaries, childSummaries,
                              tableSummaries)
    /\ IF Threw \in LookupsOf(directSummaries, childSummaries \o tableSummaries)
       THEN /\ rpc' = "failed"
            /\ UNCHANGED reportIndex
       ELSE /\ rpc' = rpc
            /\ reportIndex' = [reportIndex EXCEPT ![section] = @ + 1]
    /\ UNCHANGED <<introducedList, upgradeList, removedList>>
    /\ UNCHANGED notReportVars

\* one turn of the loop at 311-349: the lookup of the node, the lookups of
\* its children for the counts (322-330) and the lookups of its children
\* for their tables (339-346)
ReportIntroduced ==
    /\ rpc = "report"
    /\ reportIndex.new < Len(introducedList)
    /\ LET dep == introducedList[reportIndex.new + 1]
       IN  \E directSummary \in LookupOutcomes,
              childSummaries \in [DOMAIN dep.children -> LookupOutcomes],
              tableSummaries \in [DOMAIN dep.children -> LookupOutcomes] :
               ReportEntry("new", <<directSummary>>, <<childSummaries>>,
                           <<tableSummaries>>)

\* one turn of the loop at 357-420
ReportUpgrade ==
    /\ rpc = "report"
    /\ reportIndex.new = Len(introducedList)
    /\ reportIndex.upgrades < Len(upgradeList)
    /\ LET u == upgradeList[reportIndex.upgrades + 1]
       IN  \E beforeSummary \in LookupOutcomes, afterSummary \in LookupOutcomes,
              beforeChildren \in [DOMAIN u.from.children -> LookupOutcomes],
              afterChildren \in [DOMAIN u.to.children -> LookupOutcomes] :
               ReportEntry("upgrades", <<beforeSummary, afterSummary>>,
                           <<beforeChildren, afterChildren>>, <<>>)

\* one turn of the loop at 428-461
ReportRemoved ==
    /\ rpc = "report"
    /\ reportIndex.new = Len(introducedList)
    /\ reportIndex.upgrades = Len(upgradeList)
    /\ reportIndex.removed < Len(removedList)
    /\ LET dep == removedList[reportIndex.removed + 1]
       IN  \E directSummary \in LookupOutcomes,
              childSummaries \in [DOMAIN dep.children -> LookupOutcomes],
              tableSummaries \in [DOMAIN dep.children -> LookupOutcomes] :
               ReportEntry("removed", <<directSummary>>, <<childSummaries>>,
                           <<tableSummaries>>)

\* every section is through
AllReported ==
    /\ reportIndex.new = Len(introducedList)
    /\ reportIndex.upgrades = Len(upgradeList)
    /\ reportIndex.removed = Len(removedList)

\* postComment: no token or a failed request sets the run failed, no pull
\* request skips, else the comment is updated or created
PostComment ==
    /\ rpc = "report"
    /\ AllReported
    /\ rpc' \in {"posted", "skipped", "failed"}
    /\ UNCHANGED <<introducedList, upgradeList, removedList, reportIndex,
                   lastReport>>
    /\ UNCHANGED notReportVars

NextReport ==
    \/ ReportIntroduced
    \/ ReportUpgrade
    \/ ReportRemoved
    \/ PostComment

SpecReport == InitReport /\ [][NextReport]_vars

(***************************************************************************)
(* Claims about the report                                                 *)
(***************************************************************************)
\* C20: when the lookup returns absent for a node, every violation count of
\* that node is zero (its own counts, and its share of its parent's
\* transitive counts); an entry whose lookups did not throw leaves the run
\* going, absent or not, and once every entry is through the comment is
\* posted.
C20_AbsentCountsZero ==
    /\ [](AllReported /\ rpc = "report" => ENABLED PostComment)
    /\ [][(rpc = "report" /\ ~ AllReported)
            => LET r == lastReport'
               IN  Threw \notin LookupsOf(r.directSummaries,
                                           r.childSummaries \o r.tableSummaries)
                     => /\ rpc' = "report"
                        /\ \A i \in DOMAIN r.directSummaries :
                               r.directSummaries[i] = Absent
                                 => /\ r.direct[i] = NoViolations
                                    /\ r.tables[i] = renderAlertsTable(
                                                         Summary(<<>>))
                        /\ \A i \in DOMAIN r.childSummaries :
                               r.trans[i] =
                                 transitiveViolations(
                                     SelectSeq(r.childSummaries[i],
                                               LAMBDA cs : cs # Absent))
          ]_vars

\* the comment was posted after an entry whose node and child were both
\* absent from the lookup
C20_Witness ==
    /\ rpc = "posted"
    /\ lastReport.section = "new"
    /\ lastReport.directSummaries = <<Absent>>
    /\ lastReport.childSummaries = <<(<<Absent>>)>>
    /\ lastReport.direct = <<NoViolations>>

\* an entry was reported and none of its lookups threw
Reported(r) ==
    /\ r.section # "none"
    /\ Threw \notin LookupsOf(r.directSummaries,
                              r.childSummaries \o r.tableSummaries)

\* the nodes of an entry: <<i, 0>> its i-th node (the introduced or removed
\* node, or the from-node and the to-node of an upgrade), <<i, k>> the
\* k-th child of that node
NodesOfEntry(r) ==
    {<<i, 0>> : i \in DOMAIN r.directSummaries}
      \cup UNION {{<<i, k>> : k \in DOMAIN r.childSummaries[i]} :
                     i \in DOMAIN r.childSummaries}

\* the number of calls of an entry made for `node`
CallsFor(r, node) == Cardinality({c \in DOMAIN r.calls : r.calls[c] = node})

\* C26: during a run that reports changes the violation lookup is invoked
\* exactly once for each node of the diff result sets: once per introduced
\* node, removed node, upgrade from-node and to-node, and once per child of
\* such a node.
C26_LookupOncePerNode ==
    Reported(lastReport) =>
        \A node \in NodesOfEntry(lastReport) : CallsFor(lastReport, node) = 1

\* a lookup of the entry threw
ThrewIn(r) ==
    /\ r.section # "none"
    /\ Threw \in LookupsOf(r.directSummaries,
                           r.childSummaries \o r.tableSummaries)

\* C28: if a violation lookup throws while the report is built, the run
\* posts no comment (postComment is not called, the sections built so far
\* are dropped) and ends marked as failed: it is failed from the entry whose
\* lookup threw, and no step follows.
C28_ThrowPostsNothing ==
    /\ [](ThrewIn(lastReport) => rpc = "failed" /\ ~ ENABLED NextReport)
    /\ [][ThrewIn(lastReport') => rpc = "report" /\ rpc' = "failed"]_vars

\* the run failed on the second lookup of a child, after the node and the
\* first lookup of the child had answered
C28_Witness ==
    /\ rpc = "failed"
    /\ lastReport.section = "new"
    /\ lastReport.directSummaries = <<Summary(<<9, 5, 3, 0>>)>>
    /\ lastReport.childSummaries = <<(<<Summary(<<9, 5, 3, 0>>)>>)>>
    /\ lastReport.tableSummaries = <<(<<Threw>>)>>

(***************************************************************************)
(* Claims about the edge loop's root list and lookup table                 *)
(***************************************************************************)
\* the edges of a subgraph buffer, in line order
EdgesOf(module) ==
    LET lines == EdgeLinesOf(module)
    IN  [i \in DOMAIN lines |-> [left |-> exec(lines[i])[2],
                                 right |-> exec(lines[i])[3]]]

\* the indices of a list, in order
Indices(list) == [i \in DOMAIN list |-> i]

\* the left-hand strings of the edges on which that string is a left-hand
\* endpoint for the first time
FirstAsLeft(edges) ==
    LET first == SelectSeq(Indices(edges),
                    LAMBDA i : \A j \in 1..(i - 1) :
                                   edges[j].left # edges[i].left)
    IN  [k \in DOMAIN first |-> edges[first[k]].left]

\* the left-hand strings of the edges on which that string is met for the
\* first time at all
FirstMentionAsLeft(edges) ==
    LET first == SelectSeq(Indices(edges),
                    LAMBDA i : \A j \in 1..(i - 1) :
                                   /\ edges[j].left # edges[i].left
                                   /\ edges[j].right # edges[i].left)
    IN  [k \in DOMAIN first |-> edges[first[k]].left]

\* the concatenation of a list of lists
RECURSIVE Flatten(_)
Flatten(lists) ==
    IF lists = <<>> THEN <<>> ELSE Head(lists) \o Flatten(Tail(lists))

\* a node as the edge loop creates it from a coordinate string
FreshNode(raw) == createDependencyFromMavenCoordinates(Split(raw))

\* the root list holds, subgraph after subgraph, one node for each string
\* of roots[m], created from that string, and no node twice
RootsAre(roots) ==
    LET expected == Flatten(roots)
    IN  /\ Len(dependencies) = Len(expected)
        /\ \A k \in DOMAIN dependencies :
               /\ heap[dependencies[k]].identifier =
                      FreshNode(expected[k]).identifier
               /\ heap[dependencies[k]].scope = FreshNode(expected[k]).scope
        /\ \A k, l \in DOMAIN dependencies :
               k # l => dependencies[k] # dependencies[l]

\* C21 as stated: a subgraph's roots are the strings that are a left-hand
\* endpoint, each registered once, in the order of the first edge line on
\* which the string is a left-hand endpoint.
C21_RootsFirstSeenAsLeft ==
    ppc = "normalize" =>
        RootsAre([m \in DOMAIN allModules |->
                     FirstAsLeft(EdgesOf(allModules[m]))])

\* C21: within one subgraph a node is registered as a root on the first edge
\* line that mentions its coordinate string, when the string is the left-hand
\* endpoint there (a string met first as a right-hand endpoint is never
\* registered); it is registered at most once and the roots are listed in
\* that first-seen order.
C21_RootsFirstMentionAsLeft ==
    ppc = "normalize" =>
        RootsAre([m \in DOMAIN allModules |->
                     FirstMentionAsLeft(EdgesOf(allModules[m]))])

\* a subgraph was parsed that has two roots and a string that is a
\* right-hand endpoint before it is a left-hand one
C21_Witness ==
    /\ ppc = "normalize"
    /\ Len(dependencies) = 2
    /\ \E m \in DOMAIN allModules :
           LET edges == EdgesOf(allModules[m])
           IN  /\ Len(FirstMentionAsLeft(edges)) = 2
               /\ Len(FirstAsLeft(edges)) > 2

\* every endpoint of a subgraph's edges, in the order the edge loop meets
\* them: left before right, line after line
MentionsOf(edges) ==
    Flatten([i \in DOMAIN edges |-> <<edges[i].left, edges[i].right>>])

\* the distinct strings of a list, in the order of their first occurrence
Distinct(list) ==
    LET first == SelectSeq(Indices(list),
                    LAMBDA i : \A j \in 1..(i - 1) : list[j] # list[i])
    IN  [k \in DOMAIN first |-> list[first[k]]]

\* the distinct coordinate strings of subgraph m
StringsOf(m) == Distinct(MentionsOf(EdgesOf(allModules[m])))

\* the number of distinct coordinate strings in the subgraphs before m
RECURSIVE StringsBefore(_)
StringsBefore(m) ==
    IF m = 1 THEN 0 ELSE StringsBefore(m - 1) + Len(StringsOf(m - 1))

\* the node objects of subgraph m, objects being numbered as they are created
NodesOf(m) == (StringsBefore(m) + 1)..(StringsBefore(m) + Len(StringsOf(m)))

\* the node object that stands for string raw in subgraph m
NodeOf(m, raw) ==
    StringsBefore(m)
        + (CHOOSE k \in DOMAIN StringsOf(m) : StringsOf(m)[k] = raw)

\* the right-hand endpoints of the edges of subgraph m whose left-hand
\* endpoint is raw, as node objects, in line order
RightsOf(m, raw) ==
    LET edges == EdgesOf(allModules[m])
        from == SelectSeq(Indices(edges), LAMBDA i : edges[i].left = raw)
    IN  [k \in DOMAIN from |-> NodeOf(m, edges[from[k]].right)]

\* C22: within one subgraph parse every mention of one raw coordinate string
\* resolves to one node object: exactly one node is allocated per distinct
\* string of the subgraph, made from that string, and its child list holds
\* the right-hand node of every edge that mentions the string on the left,
\* whichever mention appended it.
C22_OneNodePerString ==
    ppc = "normalize" =>
        /\ Len(heap) = StringsBefore(Len(allModules) + 1)
        /\ \A m \in DOMAIN allModules :
               \A k \in DOMAIN StringsOf(m) :
                   LET raw == StringsOf(m)[k]
                       node == heap[NodeOf(m, raw)]
                   IN  /\ node.identifier = FreshNode(raw).identifier
                       /\ node.scope = FreshNode(raw).scope
                       /\ node.children = RightsOf(m, raw)

\* a string was mentioned on the left of two edges and on the right of a
\* third: its one node has two children and is the child of another node
C22_Witness ==
    /\ ppc = "normalize"
    /\ \E m \in DOMAIN allModules :
           \E n \in NodesOf(m) :
               /\ Len(heap[n].children) = 2
               /\ heap[n].children[1] # heap[n].children[2]
               /\ \E o \in NodesOf(m) : n \in Range(heap[o].children)

\* C23: de-duplication within a subgraph is by identifier equality: no
\* subgraph holds two distinct node objects whose identifiers are equal.
C23_DedupByIdentifier ==
    ppc = "normalize" =>
        \A m \in DOMAIN allModules :
            \A n, o \in NodesOf(m) :
                equals(heap[n].identifier, heap[o].identifier) => n = o

(***************************************************************************)
(* Claims about the line scanner                                           *)
(***************************************************************************)
\* a step of the scanner's loop over one line
ScanStep == ppc = "scan" /\ lineIndex' = lineIndex + 1

\* what the scanner is to do with `line`
ScanEffect(line) ==
    IF startsWith(line, DigraphStart)
    THEN /\ thisModule' = <<>>
         /\ inDiagraphSection' = TRUE
    ELSE IF line = DigraphEnd
    THEN /\ allModules' = Append(allModules, thisModule)
         /\ inDiagraphSection' = FALSE
    ELSE IF inDiagraphSection
    THEN /\ thisModule' = Append(thisModule, line)
         /\ UNCHANGED <<inDiagraphSection, allModules>>
    ELSE UNCHANGED <<inDiagraphSection, allModules, thisModule>>

\* C24: the scanner takes the lines in order; a line beginning with the start
\* marker opens a fresh buffer and sets the flag, a line equal to the end
\* marker appends the buffer to the subgraph list and clears the flag, and
\* any other line is appended to the buffer iff the flag is set and ignored
\* otherwise.  Whatever line comes next the scanner has a step with that
\* line's effect, and every step of the scanner is the effect of one line.
C24_ScannerSteps ==
    /\ [](ppc = "scan" /\ lineIndex < MaxLines
            => \A line \in InputLines : ENABLED (ScanLine /\ ScanEffect(line)))
    /\ [][ScanStep => \E line \in InputLines : ScanEffect(line)]_vars

\* four lines were scanned: three of them opened a buffer, filled it with one
\* line and closed it, the fourth left no trace
C24_Witness ==
    /\ ppc = "scan"
    /\ lineIndex = 4
    /\ ~ inDiagraphSection
    /\ thisModule = <<>>
    /\ Len(allModules) = 1
    /\ Len(allModules[1]) = 1

\* the sum of a list of numbers
RECURSIVE Sum(_)
Sum(numbers) == IF numbers = <<>> THEN 0 ELSE Head(numbers) + Sum(Tail(numbers))

\* a subgraph block is open and holds an edge line
OpenBlock == inDiagraphSection /\ EdgeLinesOf(thisModule) # <<>>

\* C30: a subgraph block that is never closed contributes no roots and no
\* edges.  When a start marker comes while a block is open, the open buffer
\* is dropped and the subgraph list stays as it is; when the input ends
\* while a block is open, the parsed forest has the nodes, the edges and the
\* roots of the closed blocks and no more.
C30_UnclosedBlockDropped ==
    /\ [][(ScanStep /\ OpenBlock /\ inDiagraphSection' /\ thisModule' = <<>>)
            => allModules' = allModules]_vars
    /\ [](ppc = "normalize" /\ OpenBlock
            => /\ Len(heap) =
                    Sum([m \in DOMAIN allModules |-> Len(StringsOf(m))])
               /\ Sum([n \in DOMAIN heap |-> Len(heap[n].children)]) =
                    Sum([m \in DOMAIN allModules |->
                            Len(EdgesOf(allModules[m]))])
               /\ Len(dependencies) =
                    Sum([m \in DOMAIN allModules |->
                            Len(FirstMentionAsLeft(EdgesOf(allModules[m])))]))

\* the input ended in an open block with an edge line, after a closed block
\* with an edge line: the forest has the two nodes of the closed block
C30_Witness ==
    /\ ppc = "normalize"
    /\ OpenBlock
    /\ Len(allModules) = 1
    /\ Len(EdgesOf(allModules[1])) = 1
    /\ Len(heap) = 2
    /\ Len(dependencies) = 1

(***************************************************************************)
(* Termination of parseDependencyTreeOutput                                *)
(***************************************************************************)
\* the normalizer is straight-line code on the one thread of the run: once
\* the edge loop is through, its statements are executed
SpecTerminates == Init /\ [][Next]_vars /\ WF_vars(Normalize)

MaxPostCalls == 3

\* the comment bodies handed to postComment
CommentBodies == {"r1", "r2"}

\* a comment body: whether it holds COMMENT_MARKER, and the rest of it
Body(marker, text) == [marker |-> marker, text |-> text]

Comment(id, body) == [id |-> id, body |-> body]

\* the pull request before the first call: a comment of somebody else or
\* none, and at most one comment with the marker, in either order
InitialComments ==
    LET other == Body(FALSE, "hi")
        marked == Body(TRUE, "old")
    IN  {<<>>,
         <<Comment(1, other)>>,
         <<Comment(1, marked)>>,
         <<Comment(1, other), Comment(2, marked)>>,
         <<Comment(1, marked), Comment(2, other)>>}

\* what a call finds around it: GITHUB_TOKEN set or not, the event that of a
\* pull request or not, and the request that is rejected, if one is
Environments ==
    [token : BOOLEAN, pullRequest : BOOLEAN,
     rejected : {"none", "listComments", "updateComment", "deleteComment",
                 "createComment"}]

\* the id the service gives to a new comment
NewId(list) ==
    1 + (IF list = <<>> THEN 0
         ELSE CHOOSE n \in {list[i].id : i \in DOMAIN list} :
                  \A i \in DOMAIN list : list[i].id <= n)

\* comments.find(c => (c.body ?? '').includes(COMMENT_MARKER)): the position
\* of the first comment with the marker, 0 when there is none
Previous(list) ==
    IF \E i \in DOMAIN list : list[i].body.marker
    THEN CHOOSE i \in DOMAIN list :
             /\ list[i].body.marker
             /\ \A j \in 1..(i - 1) : ~ list[j].body.marker
    ELSE 0

\* createComment at 689, or the catch at 691-693
createComment(list, body, env) ==
    IF env.rejected = "createComment"
    THEN [comments |-> list, outcome |-> "failed"]
    ELSE [comments |-> Append(list, Comment(NewId(list), body)),
          outcome |-> "created"]

\* a postComment that creates its comment without looking for an earlier one
postComment_alwaysCreate(list, commentBody, mode, env) ==
    IF ~ env.token THEN [comments |-> list, outcome |-> "failed"]
    ELSE IF ~ env.pullRequest THEN [comments |-> list, outcome |-> "skipped"]
    ELSE IF env.rejected = "listComments"
    THEN [comments |-> list, outcome |-> "failed"]
    ELSE createComment(list, Body(TRUE, commentBody), env)

\* postComment(commentBody, {mode}): the comments it leaves and how it ended
postComment(list, commentBody, mode, env) ==
    LET body == Body(TRUE, commentBody)
        previous == Previous(list)
    IN  IF ~ env.token THEN [comments |-> list, outcome |-> "failed"]
        ELSE IF ~ env.pullRequest
        THEN [comments |-> list, outcome |-> "skipped"]
        ELSE IF env.rejected = "listComments"
        THEN [comments |-> list, outcome |-> "failed"]
        ELSE IF previous # 0 /\ mode = "update"
        THEN (IF env.rejected = "updateComment"
              THEN [comments |-> list, outcome |-> "failed"]
              ELSE [comments |-> [list EXCEPT ![previous].body = body],
                    outcome |-> "updated"])
        ELSE IF previous # 0 /\ mode = "replace"
        THEN (IF env.rejected = "deleteComment"
              THEN [comments |-> list, outcome |-> "failed"]
              ELSE createComment(
                       SelectSeq(list, LAMBDA c : c.id # list[previous].id),
                       body, env))
        ELSE createComment(list, body, env)

\* the modes postComment is called with: both call sites (267, 469) leave
\* opts out, which is 'update'
Modes == {"update"}

InitComment ==
    /\ comments \in InitialComments
    /\ postCalls = 0
    /\ lastPost = [outcome |-> "none"]
    /\ lastPosted = UNDEFINED
    /\ DiffIdle
    /\ CoordIdle
    /\ ParseIdle
    /\ IdIdle
    /\ ReportIdle

\* one postComment call, from its first statement to its return
CallPostComment ==
    /\ postCalls < MaxPostCalls
    /\ \E commentBody \in CommentBodies, mode \in Modes, env \in Environments :
           LET result == postComment(comments, commentBody, mode, env)
           IN  /\ comments' = result.comments
               /\ lastPost' = [body |-> commentBody, outcome |-> result.outcome]
               /\ lastPosted' = IF result.outcome \in {"updated", "created"}
                                THEN commentBody ELSE lastPosted
    /\ postCalls' = postCalls + 1
    /\ UNCHANGED notCommentVars

NextComment == CallPostComment

SpecComment == InitComment /\ [][NextComment]_vars

(***************************************************************************)
(* Claims about postComment                                                *)
(***************************************************************************)
\* the comments that carry the marker
MarkerComments == {i \in DOMAIN comments : comments[i].body.marker}

\* C29 as stated: after any sequence of postComment calls in 'update' mode
\* on a pull request with at most one marker comment, there is at most one
\* marker comment and its body is that of the most recent call.
C29_OneMarkerLatestCall ==
    /\ Cardinality(MarkerComments) <= 1
    /\ postCalls > 0 =>
           \E i \in MarkerComments : comments[i].body.text = lastPost.body

\* C29: after any sequence of postComment calls in 'update' mode on a pull
\* request with at most one marker comment, there is at most one marker
\* comment; once a call has written (updated or created) a comment, there is
\* exactly one and its body is that of the most recent call that wrote; a
\* call that fails or skips leaves the comments as they were.
C29_OneMarkerLatestWritten ==
    /\ [](Cardinality(MarkerComments) <= 1)
    /\ [](lastPosted # UNDEFINED =>
             \E i \in MarkerComments :
                 comments[i].body = Body(TRUE, lastPosted))
    /\ [][lastPost'.outcome \in {"failed", "skipped"}
            => comments' = comments]_vars

\* three calls were made, the last one updated the comment an earlier call
\* had created next to somebody else's comment
C29_Witness ==
    /\ postCalls = 3
    /\ lastPost.outcome = "updated"
    /\ Len(comments) = 2
    /\ ~ comments[1].body.marker
    /\ comments[2].body = Body(TRUE, lastPost.body)
    /\ comments[2].id = 2

=============================================================================
